---- MODULE Spec2Model ----
(***************************************************************************)
(* Model of DebuggerAgent (src/ai_agent_project/tests/__init__.py): the    *)
(* retry loop retry_tests, the three-tier dispatch apply_fix, the pattern  *)
(* matchers, the learned tier with its backup guard, the AI tier and the   *)
(* learning store.                                                         *)
(*                                                                         *)
(* Texts (error messages, payloads, file lines) are sequences of tokens;   *)
(* the substring test `k in s` of the code is contiguous-subsequence       *)
(* containment.  A path is the sequence of its components.                 *)
(***************************************************************************)
EXTENDS Integers, Sequences, FiniteSets, TLC

VARIABLES
    pc,             \* position of the running call
    max_retries,    \* argument of retry_tests
    attempt,        \* loop variable of retry_tests (1-based)
    failures,       \* failure records parsed in the current attempt
    idx,            \* index in failures of the record being dispatched
    modified_files, \* retry_tests' local list
    fix_ok,         \* value returned by the last apply_fix call
    outcome,        \* what retry_tests returned ("none" while running)
    disk,           \* path -> [ex, lines]
    learning_db,    \* self.learning_db, ordered sequence of [key, fix]
    db_file,        \* learning_db.json: [ex, text]
    nRuns,          \* run_tests calls made by this retry_tests call
    nPush,          \* push_to_github calls made
    nRollback,      \* self.rollback_changes calls made
    vcs_rollback,   \* lists handed to DebugAgentUtils.rollback_changes
    changed,        \* failure.file names whose target contents an apply_fix call changed
    tiers,          \* tiers entered by the current apply_fix call, with results
    matchers,       \* pattern matchers invoked by the current apply_fix call
    ai_calls,       \* AI backend invocations by the current apply_fix call
    single_unfixed, \* test runs that reported one failure whose apply_fix returned false
    pre,            \* disk, store and store file at the start of the current apply_fix call
    test_output     \* retry_tests' local, line 137, while run_tests and
                    \* parse_test_failures are separate steps

vars == <<pc, max_retries, attempt, failures, idx, modified_files, fix_ok,
          outcome, disk, learning_db, db_file, nRuns, nPush, nRollback,
          vcs_rollback, changed, tiers, matchers, ai_calls, single_unfixed, pre,
          test_output>>

----------------------------------------------------------------------------
(* Bounds of the model *)

MaxRetriesBound == 2
MaxFailures == 2

----------------------------------------------------------------------------
(* Text helpers *)

\* `t in text` for a one-token marker t
HasTok(text, t) == \E i \in 1..Len(text) : text[i] = t

\* Python's `key in text` on strings: contiguous containment
IsSubstring(key, text) ==
    \E i \in 0..(Len(text) - Len(key)) : SubSeq(text, i + 1, i + Len(key)) = key

\* the least element of a non-empty set of integers
Least(S) == CHOOSE x \in S : \A y \in S : x <= y

\* int(str) for the decimal strings that occur in the model
ParseInt(s) == CASE s = "0" -> 0 [] s = "1" -> 1 [] s = "2" -> 2 [] s = "3" -> 3
                 [] OTHER -> -1

IsDigits(s) == s \in {"0", "1", "2", "3"}

\* insert the lines `ins` so that they follow the first i lines of `lines`
InsertAt(lines, i, ins) == SubSeq(lines, 1, i) \o ins \o SubSeq(lines, i + 1, Len(lines))

ReplTabKept(tok) == tok

\* line.replace("\t", "    "), one character of the line
RECURSIVE MapLines(_, _)
ReplTab(tok) == IF tok = "\t" THEN "    " ELSE tok
MapLines(lines, i) ==
    IF i > Len(lines) THEN <<>>
    ELSE << [j \in 1..Len(lines[i]) |-> ReplTab(lines[i][j])] >> \o MapLines(lines, i + 1)

----------------------------------------------------------------------------
(* Paths and files *)

Absent == [ex |-> FALSE, lines |-> <<>>]
File(ls) == [ex |-> TRUE, lines |-> ls]

\* os.path.join("tests", file_name)
PatternPath(file) == <<"tests">> \o file

RECURSIVE StripTests(_)
StripTests(parts) ==
    IF parts # <<>> /\ Head(parts) = "tests" THEN StripTests(Tail(parts)) ELSE parts

\* os.path.join(*parts) raises TypeError when nothing is left of the path
LearnedPathRaises(file) == StripTests(file) = <<>>
LearnedPath(file) == <<"tests">> \o StripTests(file)

\* os.path.join("tests", failure["file"])
AIPath(file) == <<"tests">> \o file

BackupOf(path) == path \o <<".backup">>

----------------------------------------------------------------------------
(* File I/O of the pattern matchers.  A matcher reads the file, edits the  *)
(* list of lines and writes it back inside one try block; `fault` is what  *)
(* the file system does to that call: nothing, an exception on reading, or *)
(* an exception on writing after open(path, "w") has truncated the file.   *)

Faults == {"none", "read", "write"}

Unchanged(d) == [ok |-> FALSE, disk |-> d]

\* with open(path, "w") as f: f.writelines(lines); return True
WriteBack(d, path, lines, fault) ==
    IF fault = "write"
    THEN [ok |-> FALSE, disk |-> [d EXCEPT ![path] = File(<<>>)]]
    ELSE [ok |-> TRUE, disk |-> [d EXCEPT ![path] = File(lines)]]

----------------------------------------------------------------------------
(* Pattern matchers *)

\* "class <name>" in line
HasClassDef(line, name) ==
    \E j \in 1..(Len(line) - 1) : line[j] = "class" /\ line[j + 1] = name

\* positions where '(.+?)' object has no attribute '(.+?)' matches
AttrMatches(err) ==
    {i \in 2..(Len(err) - 1) : err[i] = "object has no attribute"}

StubLines(attr) == << <<"    ", "def", attr, "(self):">>, <<"        ", "pass">>, <<>> >>

QuickFixMissingAttribute(d, file, err, fault) ==
    LET path == PatternPath(file) IN
    IF AttrMatches(err) = {} THEN Unchanged(d)
    ELSE IF ~d[path].ex THEN Unchanged(d)
    ELSE IF fault = "read" THEN Unchanged(d)
    ELSE
      LET i == Least(AttrMatches(err))
          class_name == err[i - 1]
          missing_attr == err[i + 1]
          lines == d[path].lines
          hits == {k \in 1..Len(lines) : HasClassDef(lines[k], class_name)}
          new == IF hits = {} THEN lines
                 ELSE InsertAt(lines, Least(hits), StubLines(missing_attr))
      IN WriteBack(d, path, new, fault)

\* positions j, k where AssertionError: (.+?) != (.+) matches
AssertMatches(err) ==
    {jk \in (1..Len(err)) \X (1..Len(err)) :
        /\ err[jk[1]] = "AssertionError"
        /\ jk[2] > jk[1] + 1
        /\ jk[2] < Len(err)
        /\ err[jk[2]] = "!="}

\* re.sub(r"assert (.+?) == (.+)", f"assert {actual} == {actual}\n", line):
\* the line keeps its own newline, so an empty line follows the rewritten one
RewriteAssert(line, actual) ==
    LET as == {a \in 1..Len(line) :
                 /\ line[a] = "assert"
                 /\ \E e \in (a + 2)..(Len(line) - 1) : line[e] = "=="}
    IN IF as = {} THEN <<line>>
       ELSE << SubSeq(line, 1, Least(as) - 1) \o <<"assert">> \o actual
               \o <<"==">> \o actual, <<>> >>

QuickFixAssertionMismatch(d, file, err, fault) ==
    LET path == PatternPath(file) IN
    IF AssertMatches(err) = {} THEN Unchanged(d)
    ELSE IF ~d[path].ex THEN Unchanged(d)
    ELSE IF fault = "read" THEN Unchanged(d)
    ELSE
      LET j == Least({jk[1] : jk \in AssertMatches(err)})
          k == Least({jk[2] : jk \in {m \in AssertMatches(err) : m[1] = j}})
          actual == SubSeq(err, k + 1, Len(err))
          lines == d[path].lines
          hits == {n \in 1..Len(lines) :
                     HasTok(lines[n], "assert") /\ HasTok(lines[n], "==")}
      IN IF hits = {} THEN Unchanged(d)
         ELSE LET n == Least(hits)
                  new == SubSeq(lines, 1, n - 1) \o RewriteAssert(lines[n], actual)
                         \o SubSeq(lines, n + 1, Len(lines))
              IN WriteBack(d, path, new, fault)

\* positions where No module named '(.+?)' matches
ImportMatches(err) ==
    {i \in 1..(Len(err) - 1) : err[i] = "No module named"}

QuickFixImportError(d, file, err, fault) ==
    LET path == PatternPath(file) IN
    IF ImportMatches(err) = {} THEN Unchanged(d)
    ELSE IF ~d[path].ex THEN Unchanged(d)
    ELSE IF fault = "read" THEN Unchanged(d)
    ELSE
      LET missing_module == err[Least(ImportMatches(err)) + 1]
          lines == d[path].lines
          already_imported ==
              \E n \in 1..Len(lines) :
                  HasTok(lines[n], "import") /\ HasTok(lines[n], missing_module)
      IN IF already_imported THEN Unchanged(d)
         ELSE WriteBack(d, path, <<<<"import", missing_module>>>> \o lines, fault)

\* positions where (.+?)\(\) missing (\d+) required positional argument matches;
\* the search starts at the first character, so group 1 is the whole text before "()"
TypeMatches(err) ==
    {i \in 2..(Len(err) - 3) :
        /\ err[i] = "()"
        /\ err[i + 1] = "missing"
        /\ IsDigits(err[i + 2])
        /\ err[i + 3] = "required positional argument"}

Placeholders(n) == [k \in 1..(2 * n) |-> IF k % 2 = 1 THEN "," ELSE "None"]

\* starts s of a call <function_name>(...) in line
CallStarts(line, fn) ==
    {s \in 1..Len(line) :
        /\ s + Len(fn) <= Len(line)
        /\ SubSeq(line, s, s + Len(fn) - 1) = fn
        /\ line[s + Len(fn)] = "("
        /\ \E c \in (s + Len(fn) + 1)..Len(line) : line[c] = ")"}

\* re.sub(rf"{function_name}\((.*?)\)", f"{function_name}(\\1, {placeholders})", line)
RECURSIVE AddArgs(_, _, _)
AddArgs(line, fn, n) ==
    IF CallStarts(line, fn) = {} THEN line
    ELSE LET s == Least(CallStarts(line, fn))
             o == s + Len(fn)
             c == Least({x \in (o + 1)..Len(line) : line[x] = ")"})
         IN SubSeq(line, 1, c - 1) \o Placeholders(n) \o <<")">>
            \o AddArgs(SubSeq(line, c + 1, Len(line)), fn, n)

QuickFixTypeError(d, file, err, fault) ==
    LET path == PatternPath(file) IN
    IF TypeMatches(err) = {} THEN Unchanged(d)
    ELSE IF ~d[path].ex THEN Unchanged(d)
    ELSE IF fault = "read" THEN Unchanged(d)
    ELSE
      LET i == Least(TypeMatches(err))
          function_name == SubSeq(err, 1, i - 1)
          missing_count == ParseInt(err[i + 2])
          lines == d[path].lines
          changed_something ==
              \E n \in 1..Len(lines) : CallStarts(lines[n], function_name) # {}
          new == [n \in 1..Len(lines) |-> AddArgs(lines[n], function_name, missing_count)]
      IN IF changed_something THEN WriteBack(d, path, new, fault) ELSE Unchanged(d)

QuickFixIndentation(d, file, fault) ==
    LET path == PatternPath(file) IN
    IF ~d[path].ex THEN Unchanged(d)
    ELSE IF fault = "read" THEN Unchanged(d)
    ELSE WriteBack(d, path, MapLines(d[path].lines, 1), fault)

Invoked(name, r) == [ok |-> r.ok, disk |-> r.disk, invoked |-> <<name>>]

\* a chain in which a matcher that fails lets the later markers have their turn
OrElse(first, rest) ==
    IF first.ok THEN first
    ELSE [ok |-> rest.ok, disk |-> rest.disk, invoked |-> first.invoked \o rest.invoked]
NotTried(d) == [ok |-> FALSE, disk |-> d, invoked |-> <<>>]
ApplyKnownPatternFallThrough(d, failure, fault) ==
    LET e == failure.error
        f == failure.file
        t1 == IF HasTok(e, "AttributeError")
              THEN Invoked("missing_attribute", QuickFixMissingAttribute(d, f, e, fault))
              ELSE NotTried(d)
        t2 == IF HasTok(e, "AssertionError")
              THEN Invoked("assertion_mismatch",
                           QuickFixAssertionMismatch(t1.disk, f, e, fault))
              ELSE NotTried(t1.disk)
        t3 == IF HasTok(e, "ImportError")
              THEN Invoked("import_error", QuickFixImportError(t2.disk, f, e, fault))
              ELSE NotTried(t2.disk)
        t4 == IF /\ HasTok(e, "TypeError") /\ HasTok(e, "missing")
                 /\ HasTok(e, "required positional argument")
              THEN Invoked("type_error", QuickFixTypeError(t3.disk, f, e, fault))
              ELSE NotTried(t3.disk)
        t5 == IF HasTok(e, "IndentationError")
              THEN Invoked("indentation", QuickFixIndentation(t4.disk, f, fault))
              ELSE NotTried(t4.disk)
    IN OrElse(t1, OrElse(t2, OrElse(t3, OrElse(t4, t5))))

\* _apply_known_pattern: [ok, disk, invoked], invoked the matchers it called in order
ApplyKnownPattern(d, failure, fault) ==
    LET error_msg == failure.error
        file_name == failure.file
    IN IF HasTok(error_msg, "AttributeError")
       THEN Invoked("missing_attribute",
                    QuickFixMissingAttribute(d, file_name, error_msg, fault))
       ELSE IF HasTok(error_msg, "AssertionError")
       THEN Invoked("assertion_mismatch",
                    QuickFixAssertionMismatch(d, file_name, error_msg, fault))
       ELSE IF HasTok(error_msg, "ImportError")
       THEN Invoked("import_error",
                    QuickFixImportError(d, file_name, error_msg, fault))
       ELSE IF /\ HasTok(error_msg, "TypeError")
               /\ HasTok(error_msg, "missing")
               /\ HasTok(error_msg, "required positional argument")
       THEN Invoked("type_error",
                    QuickFixTypeError(d, file_name, error_msg, fault))
       ELSE IF HasTok(error_msg, "IndentationError")
       THEN Invoked("indentation", QuickFixIndentation(d, file_name, fault))
       ELSE [ok |-> FALSE, disk |-> d, invoked |-> <<>>]

----------------------------------------------------------------------------
(* Learning store *)

NoFix == [found |-> FALSE, fix |-> <<>>]

\* lines 549-551, for known_err, fix_str in self.learning_db.items(): the loop
\* from the n-th entry on
RECURSIVE SearchFrom(_, _, _)
SearchFrom(db, error_msg, n) ==
    IF n > Len(db) THEN NoFix
    ELSE IF IsSubstring(db[n].key, error_msg) THEN [found |-> TRUE, fix |-> db[n].fix]
    ELSE SearchFrom(db, error_msg, n + 1)

\* the scan going on to the end, the last key contained in the text being kept
SearchLearnedFixLast(db, error_msg) ==
    LET hits == {n \in 1..Len(db) : IsSubstring(db[n].key, error_msg)}
    IN IF hits = {} THEN NoFix
       ELSE [found |-> TRUE, fix |-> db[CHOOSE n \in hits : \A m \in hits : m <= n].fix]

SearchLearnedFixExact(db, error_msg) ==
    IF \E n \in 1..Len(db) : db[n].key = error_msg
    THEN [found |-> TRUE, fix |-> db[CHOOSE n \in 1..Len(db) : db[n].key = error_msg].fix]
    ELSE NoFix

\* _search_learned_fix: the items of the store are scanned in the dict's order
SearchLearnedFix(db, error_msg) == SearchFrom(db, error_msg, 1)

\* self.learning_db[error_msg] = fix_str: a present key keeps its place
DictSet(db, key, fix) ==
    IF \E n \in 1..Len(db) : db[n].key = key
    THEN [n \in 1..Len(db) |-> IF db[n].key = key THEN [key |-> key, fix |-> fix] ELSE db[n]]
    ELSE Append(db, [key |-> key, fix |-> fix])

\* The store file is a text of tokens: the punctuation of JSON, the line breaks
\* of indent=4, and the characters of the strings.
Quote == "\""
Backslash == "\\"

EscapeRaw(tok) == <<tok>>

\* json.dump, one character of a string: quotes, backslashes and control
\* characters are written as escape sequences
Escape(tok) ==
    IF tok = Quote THEN <<Backslash, Quote>>
    ELSE IF tok = Backslash THEN <<Backslash, Backslash>>
    ELSE IF tok = "\t" THEN <<Backslash, "t">>
    ELSE IF tok = "\n" THEN <<Backslash, "n">>
    ELSE <<tok>>

RECURSIVE EscapeAll(_, _)
EscapeAll(text, n) ==
    IF n > Len(text) THEN <<>> ELSE Escape(text[n]) \o EscapeAll(text, n + 1)

\* json.dump of a str
DumpStr(text) == <<Quote>> \o EscapeAll(text, 1) \o <<Quote>>

RECURSIVE DumpMembers(_, _)
DumpMembers(db, n) ==
    IF n > Len(db) THEN <<>>
    ELSE (IF n > 1 THEN <<",">> ELSE <<>>) \o <<"\n">> \o DumpStr(db[n].key)
         \o <<":">> \o DumpStr(db[n].fix) \o DumpMembers(db, n + 1)

\* json.dump(self.learning_db, f, indent=4): the items in the dict's order
JsonDump(db) ==
    IF db = <<>> THEN <<"{", "}">>
    ELSE <<"{">> \o DumpMembers(db, 1) \o <<"\n", "}">>

BadJson == [ok |-> FALSE, text |-> <<>>, next |-> 0, db |-> <<>>]

\* json.load, the characters of a string up to its closing quote
RECURSIVE ReadChars(_, _, _)
ReadChars(t, i, acc) ==
    IF i > Len(t) THEN BadJson
    ELSE IF t[i] = Quote THEN [ok |-> TRUE, text |-> acc, next |-> i + 1, db |-> <<>>]
    ELSE IF t[i] \in {"\t", "\n"} THEN BadJson
    ELSE IF t[i] = Backslash
    THEN IF i + 1 > Len(t) THEN BadJson
         ELSE IF t[i + 1] \in {Quote, Backslash} THEN ReadChars(t, i + 2, Append(acc, t[i + 1]))
         ELSE IF t[i + 1] = "t" THEN ReadChars(t, i + 2, Append(acc, "\t"))
         ELSE IF t[i + 1] = "n" THEN ReadChars(t, i + 2, Append(acc, "\n"))
         ELSE BadJson
    ELSE ReadChars(t, i + 1, Append(acc, t[i]))

ReadStr(t, i) == IF i > Len(t) \/ t[i] # Quote THEN BadJson ELSE ReadChars(t, i + 1, <<>>)

RECURSIVE SkipWs(_, _)
SkipWs(t, i) == IF i <= Len(t) /\ t[i] = "\n" THEN SkipWs(t, i + 1) ELSE i

\* json.load, the members of an object of strings; a repeated key keeps its
\* place and takes the later value
RECURSIVE ReadMembers(_, _, _)
ReadMembers(t, i, acc) ==
    LET k == ReadStr(t, SkipWs(t, i))
        c == SkipWs(t, k.next)
        v == ReadStr(t, SkipWs(t, c + 1))
        e == SkipWs(t, v.next)
        acc2 == DictSet(acc, k.text, v.text)
    IN IF ~k.ok THEN BadJson
       ELSE IF c > Len(t) \/ t[c] # ":" THEN BadJson
       ELSE IF ~v.ok THEN BadJson
       ELSE IF e > Len(t) THEN BadJson
       ELSE IF t[e] = "," THEN ReadMembers(t, e + 1, acc2)
       ELSE IF t[e] = "}" /\ SkipWs(t, e + 1) > Len(t)
       THEN [ok |-> TRUE, text |-> <<>>, next |-> e + 1, db |-> acc2]
       ELSE BadJson

\* json.load(f) of a store file: an object whose values are strings
JsonLoad(t) ==
    IF Len(t) = 0 \/ t[1] # "{" THEN BadJson
    ELSE LET i == SkipWs(t, 2)
         IN IF i <= Len(t) /\ t[i] = "}" /\ SkipWs(t, i + 1) > Len(t)
            THEN [ok |-> TRUE, text |-> <<>>, next |-> i + 1, db |-> <<>>]
            ELSE ReadMembers(t, 2, <<>>)

\* _save_learning_db: the file is rewritten in full; a write that raises is logged
\* and leaves the file cut short
SaveLearningDb(db, fault) ==
    IF fault = "write" THEN [ex |-> TRUE, text |-> <<"{">>]
    ELSE [ex |-> TRUE, text |-> JsonDump(db)]

\* _load_learning_db: {} for a missing file and for one json.load rejects
LoadLearningDb(f) ==
    IF ~f.ex THEN <<>>
    ELSE IF JsonLoad(f.text).ok THEN JsonLoad(f.text).db ELSE <<>>

\* the fixed text apply_fix stores after a successful AI patch
Sentinel == <<"LLM-based patch (not real code)">>

----------------------------------------------------------------------------
(* Payloads.  A JSON object is written <<"{", k1, v1, ..., kn, vn, "}">>. *)

JsonValid(p) == Len(p) >= 2 /\ p[1] = "{" /\ p[Len(p)] = "}" /\ Len(p) % 2 = 0

JsonHas(p, k) == \E i \in 1..((Len(p) - 2) \div 2) : p[2 * i] = k

\* fix_data.get(k, default)
JsonGet(p, k, default) ==
    IF JsonHas(p, k)
    THEN p[2 * Least({i \in 1..((Len(p) - 2) \div 2) : p[2 * i] = k}) + 1]
    ELSE default

\* DebugAgentUtils.parse_diff_suggestion: the hunks found in the text
ParseDiffSuggestion(text) == SelectSeq(text, LAMBDA t : t = "hunk")

\* DebugAgentUtils.apply_diff_patch([path], patch): the hunks applied to the file
ApplyDiffPatch(d, path, patch) ==
    [d EXCEPT ![path] = File(d[path].lines \o <<patch>>)]

\* self._update_config_key(path, key, value): rewrites the value that follows the key
ConfigKeyLines(lines, key) == {n \in 1..Len(lines) : Len(lines[n]) > 0 /\ lines[n][1] = key}
UpdateConfigKey(d, path, key, value) ==
    LET lines == d[path].lines
        hits == ConfigKeyLines(lines, key)
    IN IF hits = {} THEN [ok |-> FALSE, disk |-> d]
       ELSE [ok |-> TRUE,
             disk |-> [d EXCEPT ![path] =
                          File([lines EXCEPT ![Least(hits)] = <<key, "=", value>>])]]

----------------------------------------------------------------------------
(* Learned tier.  `fault` is what the file system does to the call:        *)
(*   "backup"   shutil.copy(file_path, backup_path) raises                 *)
(*   "apply"    the mutation raises after it has begun to write            *)
(*   "restore"  as "apply", and the copy back from the backup raises too   *)

LearnedFaults == {"none", "backup", "apply", "restore"}

Returned(b, d) == [status |-> IF b THEN "true" ELSE "false", disk |-> d]
Raised(d) == [status |-> "raise", disk |-> d]

\* the except block: shutil.copy(backup_path, file_path); return False
RestoreFromBackup(d, path, fault) ==
    IF fault = "restore" \/ ~d[BackupOf(path)].ex THEN Raised(d)
    ELSE Returned(FALSE, [d EXCEPT ![path] = d[BackupOf(path)]])

\* a mutation of the target: completed, or begun and interrupted by an exception
Mutate(d, path, new, fault) ==
    IF fault \in {"apply", "restore"}
    THEN RestoreFromBackup([d EXCEPT ![path] = File(<<>>)], path, fault)
    ELSE Returned(TRUE, [d EXCEPT ![path] = File(new)])

SnippetInject(d, path, fix_data, fault) ==
    LET file_lines == d[path].lines
        line_no == ParseInt(JsonGet(fix_data, "line_no", "-"))
        snippet == JsonGet(fix_data, "insert_after", "")
        new == IF JsonHas(fix_data, "line_no") /\ 0 <= line_no /\ line_no < Len(file_lines)
               THEN InsertAt(file_lines, line_no + 1, <<<<snippet>>>>)
               ELSE file_lines
    IN Mutate(d, path, new, fault)

UnifiedDiff(d, path, diff_text, fault) ==
    LET patch_obj == ParseDiffSuggestion(diff_text)
    IN IF Len(patch_obj) = 0 THEN Returned(FALSE, d)
       ELSE Mutate(d, path, ApplyDiffPatch(d, path, patch_obj)[path].lines, fault)

ConfigUpdate(d, path, fix_data, fault) ==
    LET r == UpdateConfigKey(d, path, JsonGet(fix_data, "config_key", "None"),
                             JsonGet(fix_data, "new_value", "None"))
    IN IF r.ok THEN Mutate(d, path, r.disk[path].lines, fault) ELSE Returned(FALSE, d)

\* the shapes tried one after the other, an unknown type going on to the later ones
ApplyPayloadFallThrough(d, path, known_fix, fault) ==
    LET type == JsonGet(known_fix, "type", "None")
    IN IF /\ Len(known_fix) > 0 /\ known_fix[1] = "{" /\ HasTok(known_fix, "type")
          /\ ~JsonValid(known_fix)
       THEN RestoreFromBackup(d, path, fault)
       ELSE IF JsonValid(known_fix) /\ type = "snippet_inject"
       THEN SnippetInject(d, path, known_fix, fault)
       ELSE IF JsonValid(known_fix) /\ type = "unified_diff"
       THEN UnifiedDiff(d, path,
                        IF JsonHas(known_fix, "diff_text")
                        THEN <<JsonGet(known_fix, "diff_text", "")>> ELSE <<>>,
                        fault)
       ELSE IF JsonValid(known_fix) /\ type = "config_update"
       THEN ConfigUpdate(d, path, known_fix, fault)
       ELSE IF HasTok(known_fix, "diff --git") THEN UnifiedDiff(d, path, known_fix, fault)
       ELSE IF HasTok(known_fix, "def ") \/ HasTok(known_fix, "class ")
       THEN Mutate(d, path, d[path].lines \o <<<<>>, known_fix>>, fault)
       ELSE Returned(FALSE, d)

\* the try block after the backup has been made
ApplyPayload(d, path, known_fix, fault) ==
    IF Len(known_fix) > 0 /\ known_fix[1] = "{" /\ HasTok(known_fix, "type")
    THEN IF ~JsonValid(known_fix) THEN RestoreFromBackup(d, path, fault)
         ELSE LET type == JsonGet(known_fix, "type", "None")
              IN IF type = "snippet_inject" THEN SnippetInject(d, path, known_fix, fault)
                 ELSE IF type = "unified_diff"
                 THEN UnifiedDiff(d, path,
                                  IF JsonHas(known_fix, "diff_text")
                                  THEN <<JsonGet(known_fix, "diff_text", "")>> ELSE <<>>,
                                  fault)
                 ELSE IF type = "config_update" THEN ConfigUpdate(d, path, known_fix, fault)
                 ELSE Returned(FALSE, d)
    ELSE IF HasTok(known_fix, "diff --git") THEN UnifiedDiff(d, path, known_fix, fault)
    ELSE IF HasTok(known_fix, "def ") \/ HasTok(known_fix, "class ")
    THEN Mutate(d, path, d[path].lines \o <<<<>>, known_fix>>, fault)
    ELSE Returned(FALSE, d)

\* _apply_adaptive_learning_fix: [status, disk], status "true", "false" or "raise"
ApplyAdaptiveLearningFix(d, db, failure, fault) ==
    IF LearnedPathRaises(failure.file) THEN Raised(d)
    ELSE
      LET file_path == LearnedPath(failure.file)
          known == SearchLearnedFix(db, failure.error)
      IN IF ~d[file_path].ex THEN Returned(FALSE, d)
         ELSE IF ~known.found \/ known.fix = <<>> THEN Returned(FALSE, d)
         ELSE IF fault = "backup" THEN RestoreFromBackup(d, file_path, "none")
         ELSE ApplyPayload([d EXCEPT ![BackupOf(file_path)] = d[file_path]],
                           file_path, known.fix, fault)

----------------------------------------------------------------------------
(* AI tier.  The backend's answer is a free text; `fault` is an exception  *)
(* raised while reading the file ("read"), by the backend ("backend") or   *)
(* by apply_diff_patch after it has begun to write ("apply").              *)

AIFaults == {"none", "read", "backend", "apply"}
Suggestions == {<<"no idea">>, <<"diff --git", "hunk">>}

\* _apply_ollama_deepseek_fix: [ok, disk, called], called iff the backend was invoked
ApplyOllamaDeepseekFix(d, failure, suggestion, fault) ==
    LET file_path == AIPath(failure.file)
        patch_obj == ParseDiffSuggestion(suggestion)
    IN IF ~d[file_path].ex THEN [ok |-> FALSE, disk |-> d, called |-> FALSE]
       ELSE IF fault = "read" THEN [ok |-> FALSE, disk |-> d, called |-> FALSE]
       ELSE IF fault = "backend" THEN [ok |-> FALSE, disk |-> d, called |-> TRUE]
       ELSE IF Len(patch_obj) = 0 THEN [ok |-> FALSE, disk |-> d, called |-> TRUE]
       ELSE IF fault = "apply"
       THEN [ok |-> FALSE, disk |-> [d EXCEPT ![file_path] = File(<<>>)], called |-> TRUE]
       ELSE [ok |-> TRUE, disk |-> ApplyDiffPatch(d, file_path, patch_obj), called |-> TRUE]

----------------------------------------------------------------------------
(* Inputs *)

FileNames == {<<"a.py">>, <<"b.py">>}
FixFileNames == FileNames \cup {<<"tests", "a.py">>, <<"tests">>}

TargetPaths == {PatternPath(f) : f \in FixFileNames} \cup
               {LearnedPath(f) : f \in FixFileNames}
AllPaths == TargetPaths \cup {BackupOf(q) : q \in TargetPaths}

ErrAttr == <<"AttributeError", "Calc", "object has no attribute", "add">>
ErrValue == <<"ValueError", "bad value">>
Errors == {ErrAttr, ErrValue}

FileA == << <<"class", "Calc", ":">>, <<"\t", "assert", "x", "==", "1">> >>
FileB == << <<"import", "os">>, <<"y", "=", "f", "(", "x", ")">> >>
OldA == << <<"class", "Calc", ":">> >>

\* a working tree: b.py may be missing, and an earlier cycle may have left a
\* backup of a.py behind
DiskOf(hasB, stale) ==
    [q \in AllPaths |->
        IF q = <<"tests", "a.py">> THEN File(FileA)
        ELSE IF q = <<"tests", "b.py">> THEN (IF hasB THEN File(FileB) ELSE Absent)
        ELSE IF q = BackupOf(<<"tests", "a.py">>) THEN (IF stale THEN File(OldA) ELSE Absent)
        ELSE Absent]

InitDisks == {DiskOf(TRUE, FALSE)}
FixDisks == {DiskOf(hasB, stale) : hasB \in BOOLEAN, stale \in BOOLEAN}

Entry(k, f) == [key |-> k, fix |-> f]
PayDef == <<"def ", "helper">>
PaySnippet == <<"{", "type", "snippet_inject", "line_no", "0", "insert_after", "x = 1", "}">>
PayUnknown == <<"{", "type", "rename", "}">>
PayBadJson == <<"{", "type", "snippet_inject">>
PayDiff == <<"diff --git", "hunk">>
PayNoteDef == <<"{", "note", "type", "code", "def ", "}">>

InitDbs == {<<>>, <<Entry(<<"ValueError">>, PayDef)>>}
FixDbs == InitDbs \cup
          {<<Entry(<<"AttributeError">>, PayDef)>>,
           <<Entry(<<"bad value">>, Sentinel), Entry(<<"ValueError">>, PayDef)>>,
           <<Entry(<<"AttributeError">>, PaySnippet), Entry(<<"ValueError">>, PayDiff)>>,
           <<Entry(<<"AttributeError">>, PayBadJson), Entry(<<"ValueError">>, PayUnknown)>>,
           <<Entry(<<"AttributeError", "add">>, PayDiff), Entry(<<"bad value">>, PayDef)>>,
           <<Entry(<<"ValueError">>, PayNoteDef)>>}

\* error texts that hold any selection of the markers _apply_known_pattern looks for
MarkerList == <<"AttributeError", "AssertionError", "ImportError", "TypeError",
                "missing", "required positional argument", "IndentationError">>
RECURSIVE Pick(_, _)
Pick(S, n) ==
    IF n > Len(MarkerList) THEN <<>>
    ELSE (IF n \in S THEN <<MarkerList[n]>> ELSE <<>>) \o Pick(S, n + 1)
MarkerTexts == {Pick(S, 1) : S \in SUBSET (1..Len(MarkerList))}

ErrAssert == <<"AssertionError", "1", "!=", "2">>
ErrImport == <<"ImportError", "No module named", "json">>
ErrType == <<"TypeError", "f", "()", "missing", "1", "required positional argument">>
ErrIndent == <<"IndentationError", "unexpected indent">>
ErrAttrImport == <<"AttributeError", "ImportError", "No module named", "json">>
FixErrors == MarkerTexts \cup
             {ErrAttr, ErrValue, ErrAssert, ErrImport, ErrType, ErrIndent, ErrAttrImport}

Records(files, errors) ==
    {[file |-> f, test |-> <<"test_x">>, error |-> e] : f \in files, e \in errors}

\* a line of the test runner's output: the FAILED line of a record, or anything else
Failed(r) == <<"FAILED ">> \o r.file \o <<"::">> \o r.test \o <<" - ">> \o r.error
Noise == <<"1 passed">>
LaunchError == << <<"Error running tests:", "pytest", "not found">> >>

RECURSIVE SeqsUpTo(_, _)
SeqsUpTo(S, n) ==
    IF n = 0 THEN {<<>>}
    ELSE SeqsUpTo(S, n - 1) \cup
         {Append(q, x) : q \in {t \in SeqsUpTo(S, n - 1) : Len(t) = n - 1}, x \in S}

OutputLines == {Failed(r) : r \in Records(FileNames, Errors)} \cup {Noise}
TestOutputs == SeqsUpTo(OutputLines, MaxFailures)

\* failure_pattern, r"FAILED (.+?)::(.+?) - (.+)", matched from position i of a
\* line: each group takes at least one token, and no group crosses a line break
SepsFrom(line, i) ==
    {c \in (i + 2)..Len(line) :
        /\ line[c] = "::"
        /\ \E d \in (c + 2)..(Len(line) - 1) : line[d] = " - "}
MatchesAt(line, i) == line[i] = "FAILED " /\ SepsFrom(line, i) # {}

\* match.group(1), group(2), group(3): the lazy groups end at the first
\* separator that lets the rest match, the last group takes the rest of the line
GroupsAt(line, i) ==
    LET c == Least(SepsFrom(line, i))
        d == Least({x \in (c + 2)..(Len(line) - 1) : line[x] = " - "})
    IN [file |-> SubSeq(line, i + 1, c - 1),
        test |-> SubSeq(line, c + 1, d - 1),
        error |-> SubSeq(line, d + 1, Len(line))]

\* finditer within one line: the leftmost match, which runs to the end of the line
FindInLine(line) ==
    LET starts == {i \in 1..Len(line) : MatchesAt(line, i)}
    IN IF starts = {} THEN <<>> ELSE <<GroupsAt(line, Least(starts))>>

\* parse_test_failures: the matches of failure_pattern.finditer, in order
RECURSIVE ParseFrom(_, _)
ParseFrom(output, n) ==
    IF n > Len(output) THEN <<>>
    ELSE FindInLine(output[n]) \o ParseFrom(output, n + 1)
ParseTestFailures(output) == ParseFrom(output, 1)

----------------------------------------------------------------------------
(* State machine *)

Snapshot == [disk |-> disk, db |-> learning_db, file |-> db_file]
NoDbFile == [ex |-> FALSE, text |-> <<>>]

InSeq(x, q) == \E n \in 1..Len(q) : q[n] = x
Range(q) == {q[n] : n \in 1..Len(q)}

\* __init__: the store is loaded from its file; no call is running
Init ==
    /\ pc = "idle"
    /\ max_retries = 0
    /\ attempt = 0
    /\ failures = <<>>
    /\ idx = 0
    /\ modified_files = <<>>
    /\ fix_ok = FALSE
    /\ outcome = "none"
    /\ disk \in InitDisks
    /\ \E db \in InitDbs :
          /\ db_file = (IF db = <<>> THEN NoDbFile ELSE SaveLearningDb(db, "none"))
          /\ learning_db = LoadLearningDb(db_file)
    /\ nRuns = 0
    /\ nPush = 0
    /\ nRollback = 0
    /\ vcs_rollback = <<>>
    /\ changed = {}
    /\ tiers = <<>>
    /\ matchers = <<>>
    /\ ai_calls = 0
    /\ single_unfixed = 0
    /\ pre = Snapshot
    /\ test_output = <<>>

\* the bookkeeping of entering apply_fix
EnterApplyFix ==
    /\ fix_ok' = FALSE
    /\ tiers' = <<>>
    /\ matchers' = <<>>
    /\ ai_calls' = 0
    /\ pre' = [disk |-> disk', db |-> learning_db', file |-> db_file']

\* the bookkeeping of leaving the dispatch loop: the call's record is dropped
LeaveApplyFix ==
    /\ fix_ok' = FALSE
    /\ tiers' = <<>>
    /\ matchers' = <<>>
    /\ ai_calls' = 0
    /\ pre' = [disk |-> disk', db |-> learning_db', file |-> db_file']

MoreAttemptsOffByOne(done, max) == done <= max

\* line 134, for attempt in range(1, max_retries + 1): another attempt follows `done`
MoreAttempts(done, max) == done < max

PushSkipped(pushes) == pushes

\* the publish action invoked a second time
PushTwice(pushes) == pushes + 2

\* line 143: self.push_to_github(...) is called; what it raises is caught and logged
PushToGithub(pushes) == pushes + 1

\* retry_tests(max_retries): modified_files = []; the loop starts or is empty
StartRetryTests ==
    /\ pc = "idle"
    /\ UNCHANGED test_output
    /\ \E m \in 0..MaxRetriesBound :
          /\ max_retries' = m
          /\ attempt' = 1
          /\ modified_files' = <<>>
          /\ IF MoreAttempts(0, m) THEN pc' = "run" /\ outcome' = outcome
             ELSE pc' = "done" /\ outcome' = "max_retries"
    /\ UNCHANGED <<failures, idx, fix_ok, disk, learning_db, db_file, nRuns, nPush,
                   nRollback, vcs_rollback, changed, tiers, matchers, ai_calls,
                   single_unfixed, pre>>

\* run_tests, parse_test_failures and the `if not failures` branch
RunTests ==
    /\ pc = "run"
    /\ UNCHANGED test_output
    /\ nRuns' = nRuns + 1
    /\ UNCHANGED <<max_retries, attempt, modified_files, disk, learning_db,
                   db_file, nRollback, vcs_rollback, changed, single_unfixed>>
    /\ \E output \in TestOutputs \cup {LaunchError} :
          /\ failures' = ParseTestFailures(output)
          /\ IF failures' = <<>>
             THEN /\ nPush' = PushToGithub(nPush)
                  /\ outcome' = "success"
                  /\ pc' = "done"
                  /\ idx' = 0
                  /\ UNCHANGED <<fix_ok, tiers, matchers, ai_calls, pre>>
             ELSE /\ idx' = 1
                  /\ pc' = "pattern"
                  /\ UNCHANGED <<nPush, outcome>>
                  /\ EnterApplyFix

AfterPatternNoReturn(ok) == "learned"

\* lines 108-110: a pattern fix that worked ends apply_fix with True
AfterPattern(ok) == IF ok THEN "returned" ELSE "learned"

\* apply_fix, step 1: _apply_known_pattern
PatternTier ==
    /\ pc = "pattern"
    /\ UNCHANGED test_output
    /\ \E fault \in Faults :
          LET r == ApplyKnownPattern(disk, failures[idx], fault)
          IN /\ disk' = r.disk
             /\ matchers' = r.invoked
             /\ tiers' = Append(tiers, [tier |-> "pattern", ok |-> r.ok])
             /\ fix_ok' = r.ok
             /\ pc' = AfterPattern(r.ok)
    /\ UNCHANGED <<max_retries, attempt, failures, idx, modified_files, outcome,
                   learning_db, db_file, nRuns, nPush, nRollback, vcs_rollback,
                   changed, ai_calls, single_unfixed, pre>>

\* apply_fix, step 2: _apply_adaptive_learning_fix; its exception leaves retry_tests
LearnedTier ==
    /\ pc = "learned"
    /\ UNCHANGED test_output
    /\ \E fault \in LearnedFaults :
          LET r == ApplyAdaptiveLearningFix(disk, learning_db, failures[idx], fault)
          IN /\ disk' = r.disk
             /\ tiers' = Append(tiers, [tier |-> "learned", ok |-> r.status = "true"])
             /\ IF r.status = "true"
                THEN fix_ok' = TRUE /\ pc' = "returned" /\ outcome' = outcome
                ELSE IF r.status = "false"
                THEN fix_ok' = fix_ok /\ pc' = "ai" /\ outcome' = outcome
                ELSE fix_ok' = fix_ok /\ pc' = "done" /\ outcome' = "exception"
    /\ UNCHANGED <<max_retries, attempt, failures, idx, modified_files, learning_db,
                   db_file, nRuns, nPush, nRollback, vcs_rollback, changed, matchers,
                   ai_calls, single_unfixed, pre>>

\* the error text stored whatever the AI tier has returned
StoreAfterAIAlways(ok, db, error_msg) == DictSet(db, error_msg, Sentinel)

\* lines 120-126: `if success:` the error text is stored with the sentinel
StoreAfterAI(ok, db, error_msg) ==
    IF ok THEN DictSet(db, error_msg, Sentinel) ELSE db

\* apply_fix, step 3: _apply_ollama_deepseek_fix, then _store_learned_fix on success
AITier ==
    /\ pc = "ai"
    /\ UNCHANGED test_output
    /\ \E suggestion \in Suggestions, fault \in AIFaults :
          LET r == ApplyOllamaDeepseekFix(disk, failures[idx], suggestion, fault)
          IN /\ disk' = r.disk
             /\ ai_calls' = ai_calls + (IF r.called THEN 1 ELSE 0)
             /\ tiers' = Append(tiers, [tier |-> "ai", ok |-> r.ok])
             /\ fix_ok' = r.ok
             /\ learning_db' = StoreAfterAI(r.ok, learning_db, failures[idx].error)
             /\ IF r.ok
                THEN \E save \in {"none", "write"} :
                        db_file' = SaveLearningDb(learning_db', save)
                ELSE UNCHANGED db_file
    /\ pc' = "returned"
    /\ UNCHANGED <<max_retries, attempt, failures, idx, modified_files, outcome, nRuns,
                   nPush, nRollback, vcs_rollback, changed, matchers, single_unfixed,
                   pre>>

FixAcceptedOr(ok, file_name, modified) == ok \/ ~InSeq(file_name, modified)

\* line 151: the test that decides between recording the fix and rolling back
FixAccepted(ok, file_name, modified) == ok /\ ~InSeq(file_name, modified)

\* self.rollback_changes(files_modified): the VCS is called for a non-empty list only
VcsCalls(files_modified) == IF files_modified = <<>> THEN <<>> ELSE <<files_modified>>

\* the paths of `file` that the call of apply_fix has changed
TouchedBy(file_name) ==
    IF \E q \in TargetPaths : disk[q] # pre.disk[q] THEN {file_name} ELSE {}

\* retry_tests, lines 151-161: the branch on fix_ok, then the loops' next step
LoopBranch ==
    /\ pc = "returned"
    /\ UNCHANGED test_output
    /\ changed' = changed \cup TouchedBy(failures[idx].file)
    /\ single_unfixed' = single_unfixed +
                         (IF Len(failures) = 1 /\ ~fix_ok THEN 1 ELSE 0)
    /\ UNCHANGED <<max_retries, failures, disk, learning_db, db_file, nRuns, nPush>>
    /\ IF FixAccepted(fix_ok, failures[idx].file, modified_files)
       THEN /\ modified_files' = Append(modified_files, failures[idx].file)
            /\ UNCHANGED <<nRollback, vcs_rollback>>
            /\ IF idx < Len(failures)
               THEN /\ idx' = idx + 1
                    /\ pc' = "pattern"
                    /\ UNCHANGED <<attempt, outcome>>
                    /\ EnterApplyFix
               ELSE /\ idx' = idx
                    /\ LeaveApplyFix
                    /\ IF MoreAttempts(attempt, max_retries)
                       THEN attempt' = attempt + 1 /\ pc' = "run" /\ outcome' = outcome
                       ELSE attempt' = attempt /\ pc' = "done" /\ outcome' = "max_retries"
       ELSE /\ nRollback' = nRollback + 1
            /\ vcs_rollback' = vcs_rollback \o VcsCalls(modified_files)
            /\ pc' = "done"
            /\ \E vcs_raises \in BOOLEAN :
                  outcome' = IF vcs_raises /\ VcsCalls(modified_files) # <<>>
                             THEN "exception" ELSE "could_not_fix"
            /\ UNCHANGED <<modified_files, attempt, idx>>
            /\ LeaveApplyFix

Next ==
    \/ StartRetryTests
    \/ RunTests
    \/ PatternTier
    \/ LearnedTier
    \/ AITier
    \/ LoopBranch

Spec == Init /\ [][Next]_vars

----------------------------------------------------------------------------
(* One dispatch on its own: apply_fix(failure) for any failure record, on  *)
(* any working tree and store, as retry_tests(1) calls it for the only     *)
(* failure of its run.                                                     *)

FixInit ==
    /\ pc = "pattern"
    /\ max_retries = 1
    /\ attempt = 1
    /\ failures \in {<<r>> : r \in Records(FixFileNames, FixErrors)}
    /\ idx = 1
    /\ modified_files = <<>>
    /\ fix_ok = FALSE
    /\ outcome = "none"
    /\ disk \in FixDisks
    /\ \E db \in FixDbs :
          /\ db_file = (IF db = <<>> THEN NoDbFile ELSE SaveLearningDb(db, "none"))
          /\ learning_db = LoadLearningDb(db_file)
    /\ nRuns = 1
    /\ nPush = 0
    /\ nRollback = 0
    /\ vcs_rollback = <<>>
    /\ changed = {}
    /\ tiers = <<>>
    /\ matchers = <<>>
    /\ ai_calls = 0
    /\ single_unfixed = 0
    /\ pre = Snapshot
    /\ test_output = <<>>

FixNext ==
    \/ PatternTier
    \/ LearnedTier
    \/ AITier

FixSpec == FixInit /\ [][FixNext]_vars

----------------------------------------------------------------------------
(* Properties of retry_tests *)

Handed == UNION {Range(l) : l \in Range(vcs_rollback)}

\* C1: after an apply_fix call that returned true the pass goes on: the next step
\* is the next dispatch, the next test run or 'max retries reached', and it is
\* never a rollback or a terminal error.
C1_TrueFixNeverRollsBack ==
    [][(pc = "returned" /\ fix_ok) =>
         /\ nRollback' = nRollback
         /\ \/ pc' \in {"pattern", "run"}
            \/ (pc' = "done" /\ outcome' = "max_retries")]_vars

\* C2: with max_retries = 2, a call in which every test run reported a single
\* failure that apply_fix could not fix ends with 'max retries reached' after
\* exactly 2 test runs.
C2_UnfixableRunsToMaxRetries ==
    (pc = "done" /\ max_retries = 2 /\ nRuns >= 1 /\ single_unfixed = nRuns)
        => (outcome = "max_retries" /\ nRuns = 2)

\* C2, amended: with max_retries = 2, a call in which every test run reported a
\* single failure that apply_fix could not fix ends after exactly 1 test run,
\* with one rollback call and the 'could not fix' outcome.
C2_UnfixableEndsAtFirstRun ==
    (pc = "done" /\ max_retries = 2 /\ nRuns >= 1 /\ single_unfixed = nRuns)
        => (outcome = "could_not_fix" /\ nRuns = 1 /\ nRollback = 1)

C2_Witness ==
    /\ pc = "done"
    /\ max_retries = 2
    /\ nRuns = 1
    /\ single_unfixed = 1
    /\ Len(failures) = 1
    /\ outcome = "could_not_fix"

\* C3: an apply_fix call that returns false ends the cycle: the next step calls
\* rollback and returns 'could not fix', and nothing follows the return.
C3_FalseFixEndsCycle ==
    /\ [][(pc = "returned" /\ ~fix_ok) =>
            /\ nRollback' = nRollback + 1
            /\ pc' = "done"
            /\ outcome' = "could_not_fix"]_vars
    /\ [][pc = "done" => UNCHANGED vars]_vars

\* C4: when rollback has been performed, every file an apply_fix call of this
\* retry_tests call has changed is in the list handed to the VCS rollback.
C4_RollbackCoversChanged ==
    (pc = "done" /\ nRollback > 0) => changed \subseteq Handed

\* C5: a test run with no FAILED line ends the call in that attempt with the
\* success outcome and one publish, and apply_fix runs only for a parsed failure.
C5_NoFailuresPublishes ==
    /\ [][(pc = "run" /\ failures' = <<>>) =>
            /\ pc' = "done"
            /\ outcome' = "success"
            /\ nPush' = nPush + 1
            /\ tiers' = tiers /\ matchers' = matchers /\ ai_calls' = ai_calls]_vars
    /\ [](pc \in {"pattern", "learned", "ai", "returned"} =>
            idx \in 1..Len(failures))
    /\ [](outcome = "success" => (pc = "done" /\ failures = <<>> /\ nPush = 1))

C5_Witness ==
    /\ pc = "done"
    /\ outcome = "success"
    /\ nRuns = 2
    /\ nPush = 1
    /\ modified_files # <<>>

Finished == pc = "done" /\ outcome # "none"

\* C6: a call makes at most max_retries test runs and, while it has not
\* returned, has a next step; it returns 'max retries reached' only after
\* exactly max_retries test runs, none of which reported zero failures.
C6_BoundedRetries ==
    /\ nRuns <= max_retries
    /\ pc \notin {"idle", "done"} => (ENABLED Next /\ outcome = "none")
    /\ pc = "done" => Finished
    /\ outcome = "max_retries" => (nRuns = max_retries /\ nPush = 0)

C6_Witness ==
    /\ pc = "done"
    /\ outcome = "max_retries"
    /\ max_retries = 2
    /\ nRuns = 2

\* C7: a call ends with one of the three outcomes; no exception leaves it.
C7_NoExceptionEscapes ==
    pc = "done" => outcome \in {"success", "could_not_fix", "max_retries"}

----------------------------------------------------------------------------
(* Properties of apply_fix *)

TierNames == [n \in 1..Len(tiers) |-> tiers[n].tier]
IsPrefix(a, b) == Len(a) <= Len(b) /\ SubSeq(b, 1, Len(a)) = a
ThisFailure == failures[idx]

\* C8: one apply_fix call enters the tiers in the order pattern, learned, AI,
\* each at most once, and only after every earlier tier has returned false; the
\* backend is invoked at most once, after the pattern and the learned tier have
\* both returned false; the call returns what its last tier returned.
C8_TierOrder ==
    /\ IsPrefix(TierNames, <<"pattern", "learned", "ai">>)
    /\ \A n \in 1..(Len(tiers) - 1) : ~tiers[n].ok
    /\ ai_calls <= 1
    /\ ai_calls = 1 => (Len(tiers) = 3 /\ ~tiers[1].ok /\ ~tiers[2].ok)
    /\ pc = "returned" =>
          /\ tiers # <<>>
          /\ fix_ok = tiers[Len(tiers)].ok
          /\ ~fix_ok => Len(tiers) = 3

C8_Witness ==
    /\ pc = "returned"
    /\ HasTok(ThisFailure.error, "AttributeError")
    /\ SearchLearnedFix(pre.db, ThisFailure.error).found
    /\ Len(tiers) = 3
    /\ ai_calls = 1
    /\ fix_ok

Diff == {q \in AllPaths : disk[q] # pre.disk[q]}
StoreSame == learning_db = pre.db /\ db_file = pre.file

\* C9: an apply_fix call that returns false has changed no file, created no
\* file and left the learning store as it was; one that returns true has
\* changed only what the tier that succeeded changes.
C9_NoSideEffects ==
    pc = "returned" =>
        LET f == ThisFailure.file
            last == tiers[Len(tiers)].tier
        IN IF ~fix_ok THEN Diff = {} /\ StoreSame
           ELSE IF last = "pattern" THEN Diff \subseteq {PatternPath(f)} /\ StoreSame
           ELSE IF last = "learned"
           THEN Diff \subseteq {LearnedPath(f), BackupOf(LearnedPath(f))} /\ StoreSame
           ELSE Diff \subseteq {AIPath(f)}

\* the matcher the first marker present in the error text selects
ExpectedMatcher(err) ==
    LET order == <<"AttributeError", "AssertionError", "ImportError", "TypeError",
                   "IndentationError">>
        name == <<"missing_attribute", "assertion_mismatch", "import_error",
                  "type_error", "indentation">>
        present(n) == /\ HasTok(err, order[n])
                      /\ order[n] = "TypeError" =>
                            (HasTok(err, "missing")
                             /\ HasTok(err, "required positional argument"))
        hits == {n \in 1..5 : present(n)}
    IN IF hits = {} THEN <<>> ELSE <<name[Least(hits)]>>

\* C10: the pattern tier invokes the one matcher of the first marker present
\* (none when no marker is present) and no other, also when that matcher fails
\* and a later marker is present; after a failed pattern tier the learned tier
\* is entered next.
C10_OneMatcher ==
    pc \in {"learned", "ai", "returned", "done"} =>
        /\ matchers = ExpectedMatcher(ThisFailure.error)
        /\ tiers[1].tier = "pattern"
        /\ ~tiers[1].ok => /\ pc # "returned" \/ Len(tiers) >= 2
                           /\ Len(tiers) >= 2 => tiers[2].tier = "learned"

C10_Witness ==
    /\ pc = "returned"
    /\ matchers = <<"missing_attribute">>
    /\ HasTok(ThisFailure.error, "ImportError")
    /\ IsSubstring(<<"No module named", "json">>, ThisFailure.error)
    /\ disk[PatternPath(ThisFailure.file)].ex
    /\ ~tiers[1].ok
    /\ tiers[2].tier = "learned"

----------------------------------------------------------------------------
(* Properties of the learning store *)

\* the entry apply_fix stores for `error_msg` after a successful AI patch
StoredByAI(db, error_msg) ==
    /\ \E n \in 1..Len(db) : db[n] = Entry(error_msg, Sentinel)
    /\ SearchLearnedFix(db, error_msg) = [found |-> TRUE, fix |-> Sentinel]

\* C11: once apply_fix has succeeded through the AI tier for an error text (the
\* text is stored with the sentinel), the learned tier of a later apply_fix for
\* the same error text on an existing file succeeds, so that call returns true
\* without invoking the AI backend.
C11_LearnedFixAvoidsAI ==
    [][(/\ pc = "learned"
        /\ StoredByAI(learning_db, ThisFailure.error)
        /\ disk[LearnedPath(ThisFailure.file)].ex)
       => (pc' = "returned" /\ fix_ok' /\ ai_calls' = 0)]_vars

\* the mapping `db` maps `key` to `fix`
Maps(db, key, fix) == \E n \in 1..Len(db) : db[n] = Entry(key, fix)

\* C12: when apply_fix returns true from the AI tier for failure f, the store in
\* memory and the store file both map the whole of f.error to the sentinel.
C12_AIFixStoredAndSaved ==
    (pc = "returned" /\ fix_ok /\ tiers[Len(tiers)].tier = "ai") =>
        /\ Maps(learning_db, ThisFailure.error, Sentinel)
        /\ Maps(LoadLearningDb(db_file), ThisFailure.error, Sentinel)

----------------------------------------------------------------------------
(* Properties of the patch applications of the learned and the AI tier *)

\* the calls of the two tiers that reach a mutation of the target file
LearnedMutates ==
    /\ pc = "learned"
    /\ ApplyAdaptiveLearningFix(disk, learning_db, ThisFailure, "none").status = "true"
AIMutates(suggestion) ==
    /\ pc = "ai"
    /\ ApplyOllamaDeepseekFix(disk, ThisFailure, suggestion, "none").ok

\* C13: a patch application of the learned or the AI tier whose mutation raises
\* after it has begun to write returns false and leaves the target file with
\* the contents it had before the call.
C13_BackupInvariant ==
    /\ LearnedMutates =>
          \A fault \in {"apply", "restore"} :
             LET r == ApplyAdaptiveLearningFix(disk, learning_db, ThisFailure, fault)
                 file_path == LearnedPath(ThisFailure.file)
             IN r.status = "false" /\ r.disk[file_path] = disk[file_path]
    /\ \A suggestion \in Suggestions :
          AIMutates(suggestion) =>
             LET r == ApplyOllamaDeepseekFix(disk, ThisFailure, suggestion, "apply")
                 file_path == AIPath(ThisFailure.file)
             IN ~r.ok /\ r.disk[file_path] = disk[file_path]

\* C14: a patch application of the learned or the AI tier that returns true
\* leaves <target>.backup on disk, holding what the target held just before
\* the application.
C14_BackupLeftOnSuccess ==
    /\ pc = "learned" =>
          \A fault \in LearnedFaults :
             LET r == ApplyAdaptiveLearningFix(disk, learning_db, ThisFailure, fault)
                 file_path == LearnedPath(ThisFailure.file)
             IN r.status = "true" =>
                   /\ r.disk[BackupOf(file_path)].ex
                   /\ r.disk[BackupOf(file_path)] = disk[file_path]
    /\ pc = "ai" =>
          \A suggestion \in Suggestions, fault \in AIFaults :
             LET r == ApplyOllamaDeepseekFix(disk, ThisFailure, suggestion, fault)
                 file_path == AIPath(ThisFailure.file)
             IN r.ok =>
                   /\ r.disk[BackupOf(file_path)].ex
                   /\ r.disk[BackupOf(file_path)] = disk[file_path]

----------------------------------------------------------------------------
(* Properties of the learning store's operations *)

\* the entries of the store whose key is contained in the error text
KeyHits(db, error_msg) == {n \in 1..Len(db) : IsSubstring(db[n].key, error_msg)}

\* C15: _search_learned_fix returns the payload of the first entry, in the
\* store's insertion order, whose key is a substring of the error text, and
\* returns none exactly when no key is a substring of it.
C15_FirstMatchWins ==
    pc \in {"pattern", "learned", "ai", "returned"} =>
        LET r == SearchLearnedFix(learning_db, ThisFailure.error)
            hits == KeyHits(learning_db, ThisFailure.error)
        IN /\ ~r.found <=> hits = {}
           /\ r.found => \E n \in hits : /\ r.fix = learning_db[n].fix
                                         /\ \A m \in hits : n <= m

\* the learned tier has looked up an error text that two keys with different
\* payloads are contained in, and has gone on with the payload of the first
C15_Witness ==
    /\ pc \in {"ai", "returned"}
    /\ Len(tiers) >= 2
    /\ tiers[2].tier = "learned"
    /\ disk[BackupOf(LearnedPath(ThisFailure.file))].ex
    /\ \E n, m \in KeyHits(pre.db, ThisFailure.error) :
          n < m /\ pre.db[n].fix # pre.db[m].fix
    /\ SearchLearnedFix(pre.db, ThisFailure.error).fix = pre.db[1].fix

----------------------------------------------------------------------------
(* The learning store on its own: an agent is constructed and loads the    *)
(* store file, fixes are stored and saved, and the next agent loads what   *)
(* the last one has left.                                                  *)

MaxStore == 2

StoreKeys == {<<"ValueError">>,
              <<"ValueError", Quote, "x", Quote>>,
              <<"C:", Backslash, "t", "mp">>,
              <<"E", "\n", "at line", ",">>}
StorePayloads == {Sentinel,
                  <<"def ", "f", "\t", "pass">>,
                  <<"{", Quote, "type", Quote, ":", Quote, "rename", Quote, "}">>}

StoreInit ==
    /\ pc = "store_new"
    /\ max_retries = 0
    /\ attempt = 0
    /\ failures = <<>>
    /\ idx = 0
    /\ modified_files = <<>>
    /\ fix_ok = FALSE
    /\ outcome = "none"
    /\ disk = DiskOf(TRUE, FALSE)
    /\ db_file = NoDbFile
    /\ learning_db = <<>>
    /\ nRuns = 0
    /\ nPush = 0
    /\ nRollback = 0
    /\ vcs_rollback = <<>>
    /\ changed = {}
    /\ tiers = <<>>
    /\ matchers = <<>>
    /\ ai_calls = 0
    /\ single_unfixed = 0
    /\ pre = Snapshot
    /\ test_output = <<>>

\* __init__: self.learning_db = self._load_learning_db()
LoadStore ==
    /\ pc \in {"store_new", "store_mem"}
    /\ UNCHANGED test_output
    /\ learning_db' = LoadLearningDb(db_file)
    /\ pc' = "store_loaded"
    /\ UNCHANGED <<max_retries, attempt, failures, idx, modified_files, fix_ok,
                   outcome, disk, db_file, nRuns, nPush, nRollback, vcs_rollback,
                   changed, tiers, matchers, ai_calls, single_unfixed, pre>>

\* _store_learned_fix(error_msg, fix_str): the entry is set and the store saved;
\* `pre` keeps the mapping that was in memory when _save_learning_db ran
StoreLearnedFix ==
    /\ pc \in {"store_loaded", "store_mem"}
    /\ UNCHANGED test_output
    /\ \E error_msg \in StoreKeys, fix_str \in StorePayloads, fault \in {"none", "write"} :
          /\ Len(DictSet(learning_db, error_msg, fix_str)) <= MaxStore
          /\ learning_db' = DictSet(learning_db, error_msg, fix_str)
          /\ db_file' = SaveLearningDb(learning_db', fault)
    /\ pre' = [disk |-> disk, db |-> learning_db', file |-> db_file']
    /\ pc' = "store_mem"
    /\ UNCHANGED <<max_retries, attempt, failures, idx, modified_files, fix_ok,
                   outcome, disk, nRuns, nPush, nRollback, vcs_rollback, changed,
                   tiers, matchers, ai_calls, single_unfixed>>

StoreNext ==
    \/ LoadStore
    \/ StoreLearnedFix

StoreSpec == StoreInit /\ [][StoreNext]_vars

\* C16: _load_learning_db of the file that _save_learning_db has written for a
\* mapping yields that mapping, with the same keys, values and order of
\* insertion; with no store file it yields the empty mapping.
C16_StoreRoundTrips ==
    pc = "store_loaded" =>
        /\ ~db_file.ex => learning_db = <<>>
        /\ db_file = SaveLearningDb(pre.db, "none") => learning_db = pre.db

\* a store of two entries, whose texts hold quotes, backslashes and line
\* breaks, has been saved and loaded again
C16_Witness ==
    /\ pc = "store_loaded"
    /\ db_file = SaveLearningDb(pre.db, "none")
    /\ Len(learning_db) = 2
    /\ learning_db[1].key = <<"E", "\n", "at line", ",">>
    /\ learning_db[2].key = <<"C:", Backslash, "t", "mp">>
    /\ \E n \in 1..2 : HasTok(learning_db[n].fix, Quote)

\* the place of a key in the store
KeyPos(db, key) == CHOOSE n \in 1..Len(db) : db[n].key = key

\* C27, as stated: _store_learned_fix(e, p) followed at once by
\* _search_learned_fix(e) returns p, whatever the store held before.
C27_StoreThenSearch ==
    pc \in {"store_loaded", "store_mem"} =>
        \A e \in StoreKeys, p \in StorePayloads :
           LET r == SearchLearnedFix(DictSet(learning_db, e, p), e)
           IN r.found /\ r.fix = p

\* C27, as the code has it: _store_learned_fix(e, p) followed at once by
\* _search_learned_fix(e) finds a payload; it is p when no key that stands
\* before e in the store is contained in e, and otherwise the payload of the
\* first such key.
C27_StoreThenSearchFirstKey ==
    pc \in {"store_loaded", "store_mem"} =>
        \A e \in StoreKeys, p \in StorePayloads :
           LET db == DictSet(learning_db, e, p)
               r == SearchLearnedFix(db, e)
               earlier == {n \in KeyHits(db, e) : n < KeyPos(db, e)}
           IN /\ r.found
              /\ r.fix = (IF earlier = {} THEN p ELSE db[Least(earlier)].fix)

\* a fix has been stored under a text that an older key is contained in, and
\* the search for that text returns the older key's payload, which is another
C27_Witness ==
    /\ pc = "store_mem"
    /\ Len(learning_db) = 2
    /\ learning_db[1].key = <<"ValueError">>
    /\ learning_db[2].key = <<"ValueError", Quote, "x", Quote>>
    /\ learning_db[1].fix # learning_db[2].fix
    /\ SearchLearnedFix(learning_db, learning_db[2].key).fix = learning_db[1].fix

----------------------------------------------------------------------------
(* parse_test_failures on its own: run_tests has returned an output of any *)
(* lines, and the output is parsed.                                        *)

MaxLines == 3

ParseLines ==
    {Failed(r) : r \in Records({<<"a.py">>}, {ErrValue}) \cup Records({<<"b.py">>}, {ErrAttr})}
    \cup {Noise,
          <<"FAILED ", "a.py", "::", "test_x">>,
          <<"FAILED ", "a.py", "::", "TestCalc", "::", "test_x", " - ", "ValueError">>,
          <<"INFO", "FAILED ", "a.py", "::", "test_x", " - ", "ValueError", "bad value">>}
ParseOutputs == SeqsUpTo(ParseLines, MaxLines)

ParseInit ==
    /\ pc = "parse"
    /\ max_retries = 1
    /\ attempt = 1
    /\ failures = <<>>
    /\ idx = 0
    /\ modified_files = <<>>
    /\ fix_ok = FALSE
    /\ outcome = "none"
    /\ disk = DiskOf(TRUE, FALSE)
    /\ db_file = NoDbFile
    /\ learning_db = <<>>
    /\ nRuns = 1
    /\ nPush = 0
    /\ nRollback = 0
    /\ vcs_rollback = <<>>
    /\ changed = {}
    /\ tiers = <<>>
    /\ matchers = <<>>
    /\ ai_calls = 0
    /\ single_unfixed = 0
    /\ pre = Snapshot
    /\ test_output \in ParseOutputs \cup {LaunchError}

\* line 138: failures = self.parse_test_failures(test_output)
ParseFailures ==
    /\ pc = "parse"
    /\ failures' = ParseTestFailures(test_output)
    /\ pc' = "parsed"
    /\ UNCHANGED <<max_retries, attempt, idx, modified_files, fix_ok, outcome, disk,
                   learning_db, db_file, nRuns, nPush, nRollback, vcs_rollback,
                   changed, tiers, matchers, ai_calls, single_unfixed, pre,
                   test_output>>

\* lines 140-144: no failure record, so the attempt publishes and reports success
NoFailuresBranch ==
    /\ pc = "parsed"
    /\ failures = <<>>
    /\ nPush' = PushToGithub(nPush)
    /\ outcome' = "success"
    /\ pc' = "done"
    /\ UNCHANGED <<max_retries, attempt, failures, idx, modified_files, fix_ok, disk,
                   learning_db, db_file, nRuns, nRollback, vcs_rollback,
                   changed, tiers, matchers, ai_calls, single_unfixed, pre,
                   test_output>>

ParseNext == ParseFailures \/ NoFailuresBranch

ParseSpec == ParseInit /\ [][ParseNext]_vars

\* a line of the form FAILED <file>::<test> - <reason>
WellFormed(line) == Len(line) > 0 /\ MatchesAt(line, 1)

\* C17: parse_test_failures returns one record for each line of the output that
\* has the form FAILED <file>::<test> - <reason>, in the order of the lines, a
\* repeated line giving a record each time, and nothing for any other line.
C17_OneRecordPerFailedLine ==
    pc = "parsed" =>
        LET lines == SelectSeq(test_output, WellFormed)
        IN /\ Len(failures) = Len(lines)
           /\ \A n \in 1..Len(lines) : failures[n] = GroupsAt(lines[n], 1)

----------------------------------------------------------------------------
(* The pattern tier applied again: a later attempt of retry_tests meets    *)
(* the same failure record and calls _apply_known_pattern for it a second  *)
(* time, on the file as the first call has left it.                        *)

MaxRepeat == 2

ErrAttrOther == <<"AttributeError", "Other", "object has no attribute", "add">>
ErrTypeCall == <<"f", "()", "missing", "1", "required positional argument", "TypeError">>
MatcherErrors == {ErrAttr, ErrAttrOther, ErrAssert, ErrImport, ErrType, ErrTypeCall,
                  ErrIndent, ErrValue,
                  <<"AttributeError">>, <<"AssertionError">>, <<"ImportError">>}

MatcherInit ==
    /\ pc = "matcher"
    /\ max_retries = MaxRepeat
    /\ attempt = 0
    /\ failures \in {<<r>> : r \in Records(FileNames, MatcherErrors)}
    /\ idx = 1
    /\ modified_files = <<>>
    /\ fix_ok = FALSE
    /\ outcome = "none"
    /\ disk \in FixDisks
    /\ db_file = NoDbFile
    /\ learning_db = <<>>
    /\ nRuns = 0
    /\ nPush = 0
    /\ nRollback = 0
    /\ vcs_rollback = <<>>
    /\ changed = {}
    /\ tiers = <<>>
    /\ matchers = <<>>
    /\ ai_calls = 0
    /\ single_unfixed = 0
    /\ pre = Snapshot
    /\ test_output = <<>>

\* one more call of _apply_known_pattern(failure); `pre` keeps the state the
\* call started from, `changed` the file name if any call has changed the file
ApplyMatcher ==
    /\ pc = "matcher"
    /\ MoreAttempts(attempt, max_retries)
    /\ attempt' = attempt + 1
    /\ pre' = Snapshot
    /\ \E fault \in Faults :
          LET r == ApplyKnownPattern(disk, failures[idx], fault)
          IN /\ disk' = r.disk
             /\ matchers' = matchers \o r.invoked
             /\ tiers' = Append(tiers, [tier |-> "pattern", ok |-> r.ok])
             /\ fix_ok' = r.ok
             /\ changed' = changed \cup
                           (IF r.disk # disk THEN {failures[idx].file} ELSE {})
    /\ UNCHANGED <<pc, max_retries, failures, idx, modified_files, outcome,
                   learning_db, db_file, nRuns, nPush, nRollback, vcs_rollback,
                   ai_calls, single_unfixed, test_output>>

MatcherNext == ApplyMatcher

MatcherSpec == MatcherInit /\ [][MatcherNext]_vars

HasTab(lines) == \E n \in 1..Len(lines) : HasTok(lines[n], "\t")

\* C18: for a file that exists, _quick_fix_indentation returns true, leaves no
\* tab in the file, and applied once more returns true again and leaves the
\* file as the first application has left it.
C18_IndentationIdempotent ==
    pc = "matcher" =>
        LET file == ThisFailure.file
            path == PatternPath(file)
            once == QuickFixIndentation(disk, file, "none")
            twice == QuickFixIndentation(once.disk, file, "none")
        IN disk[path].ex =>
              /\ once.ok
              /\ ~HasTab(once.disk[path].lines)
              /\ twice.ok
              /\ twice.disk = once.disk

\* the indentation fix has run twice on a file with tabs: both calls returned
\* true, the first has changed the file and the second has not
C18_Witness ==
    /\ pc = "matcher"
    /\ attempt = 2
    /\ matchers = <<"indentation", "indentation">>
    /\ tiers[1].ok /\ tiers[2].ok
    /\ changed = {ThisFailure.file}
    /\ disk = pre.disk
    /\ ~HasTab(disk[PatternPath(ThisFailure.file)].lines)

\* C19: a matcher that has fixed a file, called again with the same failure
\* record, leaves the file as it is.  (No matcher lets an exception out: each
\* catches what its file operations raise.)
C19_MatchersIdempotent ==
    pc = "matcher" =>
        LET once == ApplyKnownPattern(disk, ThisFailure, "none")
            twice == ApplyKnownPattern(once.disk, ThisFailure, "none")
        IN (once.invoked # <<>> /\ once.ok) => twice.disk = once.disk

\* the line after which _quick_fix_missing_attribute inserts, if there is one
ClassLines(lines, class_name) == {k \in 1..Len(lines) : HasClassDef(lines[k], class_name)}

\* C20: _quick_fix_missing_attribute returns true only when it has inserted the
\* stub of <attr> right after the first line that holds the class definition,
\* and returns false when the error text does not match, when the file is
\* absent and when no line holds the class definition.
C20_StubInsertedOrFailure ==
    (pc = "matcher" /\ attempt = 1 /\ matchers = <<"missing_attribute">>) =>
        LET err == ThisFailure.error
            path == PatternPath(ThisFailure.file)
            before == pre.disk[path].lines
            at == Least(AttrMatches(err))
            hits == ClassLines(before, err[at - 1])
        IN /\ tiers[1].ok =>
                /\ AttrMatches(err) # {}
                /\ hits # {}
                /\ disk[path].lines = InsertAt(before, Least(hits), StubLines(err[at + 1]))
           /\ AttrMatches(err) = {} => ~tiers[1].ok
           /\ ~pre.disk[path].ex => ~tiers[1].ok
           /\ (AttrMatches(err) # {} /\ pre.disk[path].ex /\ hits = {}) => ~tiers[1].ok

----------------------------------------------------------------------------
(* Properties of the single matchers *)

\* <actual> of 'AssertionError: <expected> != <actual>'
ActualOf(err) ==
    LET j == Least({jk[1] : jk \in AssertMatches(err)})
        k == Least({jk[2] : jk \in {m \in AssertMatches(err) : m[1] = j}})
    IN SubSeq(err, k + 1, Len(err))

\* the lines that hold the assertion keyword and the equality operator
AssertLines(lines) ==
    {n \in 1..Len(lines) : HasTok(lines[n], "assert") /\ HasTok(lines[n], "==")}

\* `line`, with its assertion made to compare `actual` with itself
Unified(line, new, actual) ==
    \E a \in 1..Len(line) :
        /\ line[a] = "assert"
        /\ new = SubSeq(line, 1, a - 1) \o <<"assert">> \o actual \o <<"==">> \o actual

\* C21: when _quick_fix_assertion_mismatch returns true, the file differs from
\* before in one line only, the first that holds the assertion keyword and the
\* equality operator, which now compares <actual> with <actual>; when no line
\* holds both, it returns false and the file is as before.
C21_OneAssertionRewritten ==
    (pc = "matcher" /\ attempt = 1 /\ matchers = <<"assertion_mismatch">>) =>
        LET path == PatternPath(ThisFailure.file)
            before == pre.disk[path].lines
            after == disk[path].lines
            hits == AssertLines(before)
        IN /\ tiers[1].ok =>
                /\ hits # {}
                /\ Len(after) = Len(before)
                /\ \A n \in 1..Len(before) : n # Least(hits) => after[n] = before[n]
                /\ Unified(before[Least(hits)], after[Least(hits)],
                           ActualOf(ThisFailure.error))
           /\ (pre.disk[path].ex /\ hits = {}) => (~tiers[1].ok /\ disk = pre.disk)

\* C22: for 'TypeError: <fn>() missing <n> required positional argument', the
\* type-error matcher adds n placeholders to every line with a call <fn>(...),
\* and returns true exactly when the file has such a line.
C22_TypeErrorCallSites ==
    (/\ pc = "matcher"
     /\ Len(ThisFailure.error) = 6
     /\ ThisFailure.error[1] = "TypeError"
     /\ TypeMatches(ThisFailure.error) = {3}) =>
        LET err == ThisFailure.error
            file == ThisFailure.file
            path == PatternPath(file)
            fn == <<err[2]>>
            n == ParseInt(err[4])
            lines == disk[path].lines
            r == QuickFixTypeError(disk, file, err, "none")
        IN disk[path].ex =>
              /\ r.ok <=> \E k \in 1..Len(lines) : CallStarts(lines[k], fn) # {}
              /\ r.ok => \A k \in 1..Len(lines) :
                            r.disk[path].lines[k] = AddArgs(lines[k], fn, n)

----------------------------------------------------------------------------
(* Properties of the learned tier *)

\* the payload is a JSON object that has a field 'type'
IsTypedJson(p) == JsonValid(p) /\ JsonHas(p, "type")

\* C23: the learned tier treats a payload that is a JSON object with a 'type'
\* field as the variant its type names, and fails for a type it does not know;
\* any other payload that holds a diff header as a unified diff; any other that
\* holds 'def ' or 'class ' as text to append to the file; and fails for the
\* rest, leaving the target file as it was.
C23_PayloadVariantOrder ==
    (/\ pc = "learned"
     /\ ~LearnedPathRaises(ThisFailure.file)
     /\ disk[LearnedPath(ThisFailure.file)].ex
     /\ SearchLearnedFix(learning_db, ThisFailure.error).found) =>
        LET path == LearnedPath(ThisFailure.file)
            p == SearchLearnedFix(learning_db, ThisFailure.error).fix
            backed == [disk EXCEPT ![BackupOf(path)] = disk[path]]
            r == ApplyAdaptiveLearningFix(disk, learning_db, ThisFailure, "none")
            type == JsonGet(p, "type", "None")
        IN IF IsTypedJson(p)
           THEN IF type = "snippet_inject" THEN r = SnippetInject(backed, path, p, "none")
                ELSE IF type = "unified_diff"
                THEN r.status = "true" <=> JsonHas(p, "diff_text")
                ELSE IF type = "config_update" THEN r = ConfigUpdate(backed, path, p, "none")
                ELSE r.status = "false" /\ r.disk[path] = disk[path]
           ELSE IF HasTok(p, "diff --git")
           THEN r = UnifiedDiff(backed, path, p, "none")
           ELSE IF HasTok(p, "def ") \/ HasTok(p, "class ")
           THEN /\ r.status = "true"
                /\ r.disk[path].lines = disk[path].lines \o <<<<>>, p>>
           ELSE r.status = "false" /\ r.disk[path] = disk[path]

\* the test of line 474: the text starts with a brace and holds 'type'
LooksLikeTypedJson(p) == Len(p) > 0 /\ p[1] = "{" /\ HasTok(p, "type")

\* C23, as the code has it: a payload that starts with '{' and holds the text
\* 'type' is parsed as JSON and handled as the variant its 'type' field names;
\* when it does not parse, or has no such field or an unknown type, the tier
\* fails with the target file as it was and the later shapes are not tried.
\* Any other payload with a diff header is a unified diff, any other with
\* 'def ' or 'class ' is appended, and the rest fails with the file as it was.
C23_PayloadVariantByShape ==
    (/\ pc = "learned"
     /\ ~LearnedPathRaises(ThisFailure.file)
     /\ disk[LearnedPath(ThisFailure.file)].ex
     /\ SearchLearnedFix(learning_db, ThisFailure.error).found) =>
        LET path == LearnedPath(ThisFailure.file)
            p == SearchLearnedFix(learning_db, ThisFailure.error).fix
            backed == [disk EXCEPT ![BackupOf(path)] = disk[path]]
            r == ApplyAdaptiveLearningFix(disk, learning_db, ThisFailure, "none")
            type == JsonGet(p, "type", "None")
        IN IF LooksLikeTypedJson(p)
           THEN IF JsonValid(p) /\ type = "snippet_inject"
                THEN r = SnippetInject(backed, path, p, "none")
                ELSE IF JsonValid(p) /\ type = "unified_diff"
                THEN r.status = "true" <=> JsonHas(p, "diff_text")
                ELSE IF JsonValid(p) /\ type = "config_update"
                THEN r = ConfigUpdate(backed, path, p, "none")
                ELSE r.status = "false" /\ r.disk[path] = disk[path]
           ELSE IF HasTok(p, "diff --git")
           THEN r = UnifiedDiff(backed, path, p, "none")
           ELSE IF HasTok(p, "def ") \/ HasTok(p, "class ")
           THEN /\ r.status = "true"
                /\ r.disk[path].lines = disk[path].lines \o <<<<>>, p>>
           ELSE r.status = "false" /\ r.disk[path] = disk[path]

\* the learned tier has failed for a payload that starts with '{', holds 'type'
\* as a value only and holds 'def ': the file is as before, the AI tier is next
C23_Witness ==
    /\ pc = "ai"
    /\ Len(tiers) = 2
    /\ ~tiers[2].ok
    /\ SearchLearnedFix(learning_db, ThisFailure.error).fix = PayNoteDef
    /\ disk[BackupOf(LearnedPath(ThisFailure.file))].ex
    /\ disk[LearnedPath(ThisFailure.file)] = pre.disk[LearnedPath(ThisFailure.file)]

\* C24: for the failure record of a dispatch, the pattern tier, the learned
\* tier and the AI tier resolve failure.file to one and the same path, also
\* when failure.file starts with the directory name 'tests'.
C24_SameTargetPath ==
    (/\ idx \in 1..Len(failures)
     /\ pc \in {"pattern", "learned", "ai", "returned"}
     /\ ~LearnedPathRaises(ThisFailure.file)) =>
        /\ PatternPath(ThisFailure.file) = LearnedPath(ThisFailure.file)
        /\ AIPath(ThisFailure.file) = LearnedPath(ThisFailure.file)

\* C25: a call of the learned tier that ends by restoring the target from
\* <target>.backup leaves the target with the contents it had when the call
\* began, also when it is the making of the backup that raised.
C25_RestoreFromOwnBackup ==
    (/\ pc = "learned"
     /\ ~LearnedPathRaises(ThisFailure.file)
     /\ disk[LearnedPath(ThisFailure.file)].ex) =>
        \A fault \in LearnedFaults :
           LET r == ApplyAdaptiveLearningFix(disk, learning_db, ThisFailure, fault)
               file_path == LearnedPath(ThisFailure.file)
           IN r.status = "false" => r.disk[file_path] = disk[file_path]

-----------------------------------------------------------------------------
(* Properties of the test run *)

\* C26: retry_tests reports success and publishes only after a test run that
\* executed; when the test runner could not be launched and run_tests returned
\* its error text, the call neither reports success nor publishes.
C26_NoSuccessWithoutRun ==
    test_output = LaunchError => outcome # "success" /\ nPush = 0

-----------------------------------------------------------------------------
(* Properties of the whole call and of the store's frame *)

\* C28: within one retry_tests call push_to_github is invoked at most once,
\* and then as the last step of a call that returns success: never in a call
\* that has invoked rollback or that returns 'could not fix' or 'max retries
\* reached'.  rollback_changes is invoked at most once.
C28_PublishOnceOnSuccess ==
    /\ nPush <= 1
    /\ nRollback <= 1
    /\ nPush = 1 => (pc = "done" /\ outcome = "success" /\ nRollback = 0)
    /\ nRollback = 1 => (pc = "done" /\ nPush = 0)
    /\ outcome \in {"could_not_fix", "max_retries"} => nPush = 0

\* a call that fixed a failure in its first attempt, found no failure in its
\* second, and published once without any rollback
C28_Witness ==
    /\ Finished
    /\ outcome = "success"
    /\ nPush = 1
    /\ nRollback = 0
    /\ vcs_rollback = <<>>
    /\ attempt = 2
    /\ Len(modified_files) >= 1

\* C29: the learning store, in memory and on disk, is modified only by the
\* step of apply_fix in which the AI tier succeeds; the pattern tier, the
\* learned tier, a failed AI tier, the rollback and every other step of the
\* call leave its keys, values and order as they were.
C29_StoreFrame ==
    [][(learning_db' # learning_db \/ db_file' # db_file) =>
          /\ pc = "ai"
          /\ pc' = "returned"
          /\ fix_ok'
          /\ tiers'[Len(tiers')] = [tier |-> "ai", ok |-> TRUE]
          /\ learning_db' = DictSet(learning_db, ThisFailure.error, Sentinel)]_vars

\* apply_fix has returned true from the AI tier and the store has a new key,
\* in memory and in the store file
C29_Witness ==
    /\ pc = "returned"
    /\ fix_ok
    /\ tiers[Len(tiers)] = [tier |-> "ai", ok |-> TRUE]
    /\ Len(learning_db) = Len(pre.db) + 1
    /\ db_file # pre.file
    /\ db_file = SaveLearningDb(learning_db, "none")

====
